---- MODULE Spec2Model ----
(***************************************************************************)
(* Blade Harmonics Visualizer (blade-harmonics-app/src/App.tsx).           *)
(*                                                                         *)
(* The App component keeps four pieces of state (numBlades, phaseShift,    *)
(* resolution, subtractMean) and calls generateData() on every render.     *)
(* generateData() is modelled by the operator GenerateData, built from the *)
(* same loops as the source.                                               *)
(*                                                                         *)
(* Numbers.  A JavaScript number is modelled in fixed point: the integer n *)
(* stands for n / Scale.  Math.sin is a fixed-point Taylor evaluation, so  *)
(* the trigonometric identities hold up to a rounding tolerance, as they   *)
(* do in floating point.  The division by `resolution' that forms a mean   *)
(* is kept exact: a mean is the fraction num/den, and the values stored in *)
(* the datasets are such fractions (den = 0 stands for the NaN / Infinity  *)
(* that a division by zero yields).                                        *)
(***************************************************************************)
EXTENDS Integers, Sequences, FiniteSets, TLC

VARIABLES
  numBlades,     \* useState(3)
  phaseShift,    \* useState(0), fixed-point radians
  resolution,    \* useState(360)
  subtractMean,  \* useState(false)
  sinData,       \* the sine dataset of the last generateData() call
  sin2Data,      \* the squared-sine dataset of the last generateData() call
  outcome        \* "pending" before generateData() is called, then how it ended

vars == <<numBlades, phaseShift, resolution, subtractMean, sinData, sin2Data, outcome>>

\* ------------------------------------------------------------------ numbers
\* one unit of the fixed-point representation is 1/Scale
Scale == 10 ^ 4
\* Math.PI in fixed point
Pi == 31416
TwoPi == 2 * Pi
HalfPi == Pi \div 2

Abs(n) == IF n < 0 THEN -n ELSE n

\* n / d of two numbers, kept exact as the fraction num/den; den = 0 is the
\* NaN or +-Infinity of a division by zero
Rat(n, d) == [num |-> n, den |-> d]

FromInt(n) == [num |-> n, den |-> 1]

\* a - b on numbers; anything involving NaN is NaN
RatSub(a, b) ==
  IF a.den = 0 \/ b.den = 0 THEN [num |-> 0, den |-> 0]
  ELSE [num |-> a.num * b.den - b.num * a.den, den |-> a.den * b.den]

IsFinite(a) == a.den # 0

\* a finished array: the elements are computed once, when the array is built
Array(xs) == xs \o <<>>

\* Taylor series of sin on [0, pi/2], fixed point
SinQuadrant(q) ==
  LET x2  == (q * q) \div Scale
      t3  == (q * x2) \div (6 * Scale)
      t5  == (t3 * x2) \div (20 * Scale)
      t7  == (t5 * x2) \div (42 * Scale)
      t9  == (t7 * x2) \div (72 * Scale)
      t11 == (t9 * x2) \div (110 * Scale)
  IN q - t3 + t5 - t7 + t9 - t11

\* sin on one turn [0, 2*pi), by its symmetries
SinTurn(r) ==
  LET h == IF r >= Pi THEN r - Pi ELSE r
      v == SinQuadrant(IF h > HalfPi THEN Pi - h ELSE h)
      c == IF v > Scale THEN Scale ELSE v
  IN IF r >= Pi THEN -c ELSE c

\* the values of sin on one turn, tabulated once: entry r + 1 is sin(r)
SinTable == Array([k \in 1 .. TwoPi |-> SinTurn(k - 1)])

\* Math.sin(x), x in fixed-point radians
Sin(x) == SinTable[(x % TwoPi) + 1]

\* Math.pow(s, 2)
Pow2(s) == (s * s) \div Scale

\* array.reduce((sum, val) => sum + val, 0)
\* The sum is formed by halving the range, which keeps the evaluation shallow
\* for arrays of several hundred elements; integer addition is associative,
\* so the result is that of the left-to-right fold.
RECURSIVE SumRange(_, _, _)
SumRange(xs, lo, hi) ==
  IF lo > hi THEN 0
  ELSE IF lo = hi THEN xs[lo]
  ELSE LET mid == (lo + hi) \div 2
       IN SumRange(xs, lo, mid) + SumRange(xs, mid + 1, hi)

Reduce(xs) == SumRange(xs, 1, Len(xs))

\* (theta / Math.PI).toFixed(2) + 'π': the label is the number of hundredths
\* of pi, rounded to nearest
ThetaLabel(theta) == (theta * 100 + HalfPi) \div Pi

\* ------------------------------------------------------------- generateData
\* Arrays are 0-based in the source and sequences 1-based here: element i of
\* an array is element i + 1 of the sequence.

\* mutant of Theta: the samples spread over half a turn
ThetaHalfTurn(i, res) == (Pi * i) \div res

\* const theta = (2 * Math.PI * i) / resolution
Theta(i, res) == (TwoPi * i) \div res

\* mutant of Phase: the blades spaced by 2*pi/(numBlades + 1)
PhaseUnevenSpacing(b, nb, ps) == ps + (TwoPi * b) \div (nb + 1)

\* const phase = phaseShift + (2 * Math.PI * b) / numBlades
Phase(b, nb, ps) == ps + (TwoPi * b) \div nb

\* mutant of SinValue: the blade's own offset is dropped
SinValueNoBladeOffset(i, b, nb, ps, res) == Sin(Theta(i, res) + ps)

\* const sinValue = Math.sin(theta + phase)
SinValue(i, b, nb, ps, res) ==
  Sin(Theta(i, res) + Phase(b, nb, ps))

\* const sin2Value = Math.pow(Math.sin(theta + phase), 2)
Sin2Value(i, b, nb, ps, res) ==
  Pow2(Sin(Theta(i, res) + Phase(b, nb, ps)))

\* for (let i = 0; i < resolution; i++) { sinSums.push(0); sin2Sums.push(0) }
ZeroSums(res) == Array([i \in 1 .. res |-> 0])

\* mutant of SampleLoop: the sums are assigned (=) instead of accumulated (+=)
SampleLoopAssigningSums(b, nb, ps, res, sinSums, sin2Sums) ==
  LET bladeSin  == Array([i \in 1 .. res |-> SinValue(i - 1, b, nb, ps, res)])
      bladeSin2 == Array([i \in 1 .. res |-> Sin2Value(i - 1, b, nb, ps, res)])
  IN [bladeSin |-> bladeSin, bladeSin2 |-> bladeSin2,
      sinSums |-> bladeSin, sin2Sums |-> bladeSin2]

\* the inner loop over i for blade b: bladeSin, bladeSin2 and the updated
\* sinSums, sin2Sums
SampleLoop(b, nb, ps, res, sinSums, sin2Sums) ==
  LET bladeSin  == Array([i \in 1 .. res |-> SinValue(i - 1, b, nb, ps, res)])
      bladeSin2 == Array([i \in 1 .. res |-> Sin2Value(i - 1, b, nb, ps, res)])
  IN [bladeSin  |-> bladeSin,
      bladeSin2 |-> bladeSin2,
      sinSums   |-> Array([i \in 1 .. res |-> sinSums[i] + bladeSin[i]]),
      sin2Sums  |-> Array([i \in 1 .. res |-> sin2Sums[i] + bladeSin2[i]])]

\* the outer loop over the blades; st carries bladeDataSin, bladeDataSin2,
\* sinSums, sin2Sums
RECURSIVE BladeLoop(_, _, _, _, _)
BladeLoop(b, nb, ps, res, st) ==
  IF b >= nb THEN st
  ELSE LET inner == SampleLoop(b, nb, ps, res, st.sinSums, st.sin2Sums)
       IN BladeLoop(b + 1, nb, ps, res,
            [bladeDataSin  |-> Append(st.bladeDataSin, inner.bladeSin),
             bladeDataSin2 |-> Append(st.bladeDataSin2, inner.bladeSin2),
             sinSums       |-> inner.sinSums,
             sin2Sums      |-> inner.sin2Sums])

\* first pass: collect all data and calculate sums
FirstPass(nb, ps, res) ==
  BladeLoop(0, nb, ps, res,
    [bladeDataSin |-> <<>>, bladeDataSin2 |-> <<>>,
     sinSums |-> ZeroSums(res), sin2Sums |-> ZeroSums(res)])

\* mutant of MeanOf: the total is divided by resolution + 1
MeanOfOffByOne(xs, res) == Rat(Reduce(xs), res + 1)

\* array.reduce(...) / resolution
MeanOf(xs, res) == Rat(Reduce(xs), res)

\* for (let b = 0; b < numBlades; b++) { means.push(mean of bladeData[b]) }
RECURSIVE BladeMeans(_, _, _, _, _)
BladeMeans(b, nb, bladeData, res, acc) ==
  IF b >= nb THEN acc
  ELSE BladeMeans(b + 1, nb, bladeData, res,
                  Append(acc, MeanOf(bladeData[b + 1], res)))

\* mutant of Means: the means of the sums are left at their initial 0
MeansWithoutSumMean(first, nb, res, sm) ==
  IF sm
  THEN [sinBladeMeans  |-> BladeMeans(0, nb, first.bladeDataSin, res, <<>>),
        sin2BladeMeans |-> BladeMeans(0, nb, first.bladeDataSin2, res, <<>>),
        sinSumMean     |-> FromInt(0),
        sin2SumMean    |-> FromInt(0)]
  ELSE [sinBladeMeans |-> <<>>, sin2BladeMeans |-> <<>>,
        sinSumMean |-> FromInt(0), sin2SumMean |-> FromInt(0)]

\* the means; without subtractMean the arrays stay empty and the sum means 0
Means(first, nb, res, sm) ==
  IF sm
  THEN [sinBladeMeans  |-> BladeMeans(0, nb, first.bladeDataSin, res, <<>>),
        sin2BladeMeans |-> BladeMeans(0, nb, first.bladeDataSin2, res, <<>>),
        sinSumMean     |-> MeanOf(first.sinSums, res),
        sin2SumMean    |-> MeanOf(first.sin2Sums, res)]
  ELSE [sinBladeMeans |-> <<>>, sin2BladeMeans |-> <<>>,
        sinSumMean |-> FromInt(0), sin2SumMean |-> FromInt(0)]

\* mutant of Point: the mean of the sums is subtracted from the blade values
PointSubtractingSumMean(i, nb, res, sm, bladeData, bladeMeans, sums, sumMean) ==
  [theta      |-> Theta(i, res),
   thetaLabel |-> ThetaLabel(Theta(i, res)),
   blade      |-> [b \in 0 .. nb - 1 |->
                    IF sm THEN RatSub(FromInt(bladeData[b + 1][i + 1]), sumMean)
                    ELSE FromInt(bladeData[b + 1][i + 1])],
   sum        |-> IF sm THEN RatSub(FromInt(sums[i + 1]), sumMean)
                  ELSE FromInt(sums[i + 1])]

\* one DataPoint: theta, thetaLabel, blade0..blade(numBlades-1), sum
Point(i, nb, res, sm, bladeData, bladeMeans, sums, sumMean) ==
  [theta      |-> Theta(i, res),
   thetaLabel |-> ThetaLabel(Theta(i, res)),
   blade      |-> [b \in 0 .. nb - 1 |->
                    IF sm
                    THEN RatSub(FromInt(bladeData[b + 1][i + 1]), bladeMeans[b + 1])
                    ELSE FromInt(bladeData[b + 1][i + 1])],
   sum        |-> IF sm
                  THEN RatSub(FromInt(sums[i + 1]), sumMean)
                  ELSE FromInt(sums[i + 1])]

\* mutant of SecondPass: the loop stops one sample early
SecondPassOneShort(nb, res, sm, first, means) ==
  [sinData  |-> Array([i \in 1 .. res - 1 |->
                  Point(i - 1, nb, res, sm, first.bladeDataSin,
                        means.sinBladeMeans, first.sinSums, means.sinSumMean)]),
   sin2Data |-> Array([i \in 1 .. res - 1 |->
                  Point(i - 1, nb, res, sm, first.bladeDataSin2,
                        means.sin2BladeMeans, first.sin2Sums, means.sin2SumMean)])]

\* second pass: create data points with optional mean subtraction
SecondPass(nb, res, sm, first, means) ==
  [sinData  |-> Array([i \in 1 .. res |->
                  Point(i - 1, nb, res, sm, first.bladeDataSin,
                        means.sinBladeMeans, first.sinSums, means.sinSumMean)]),
   sin2Data |-> Array([i \in 1 .. res |->
                  Point(i - 1, nb, res, sm, first.bladeDataSin2,
                        means.sin2BladeMeans, first.sin2Sums, means.sin2SumMean)])]

\* the rest of generateData() once the first pass has filled its arrays: the
\* means, then the second pass
AfterFirstPass(nb, res, sm, first) ==
  SecondPass(nb, res, sm, first, Means(first, nb, res, sm))

\* generateData(): { sinData, sin2Data } from the four parameters it closes over
GenerateData(nb, ps, res, sm) ==
  AfterFirstPass(nb, res, sm, FirstPass(nb, ps, res))

\* ------------------------------------------------------------ the controls
\* The value of an <input> is a string, modelled as a sequence of characters.
Digits == <<"0", "1", "2", "3", "4", "5", "6", "7", "8", "9">>

IsDigit(c) == \E d \in 1 .. 10 : Digits[d] = c

DigitVal(c) == (CHOOSE d \in 1 .. 10 : Digits[d] = c) - 1

\* the decimal digits of a non-negative integer
RECURSIVE IntToStr(_)
IntToStr(n) == IF n < 10 THEN <<Digits[n + 1]>>
               ELSE Append(IntToStr(n \div 10), Digits[(n % 10) + 1])

\* the string a browser gives for a number of hundredths: "3", "0.1", "3.14"
HundredthsToStr(h) ==
  LET whole == IntToStr(h \div 100)
      d1 == (h % 100) \div 10
      d2 == h % 10
  IN IF h % 100 = 0 THEN whole
     ELSE IF d2 = 0 THEN whole \o <<".", Digits[d1 + 1]>>
     ELSE whole \o <<".", Digits[d1 + 1], Digits[d2 + 1]>>

\* the length of the leading run of digits of str, from position k
RECURSIVE DigitRun(_, _)
DigitRun(str, k) ==
  IF k > Len(str) \/ ~IsDigit(str[k]) THEN 0 ELSE 1 + DigitRun(str, k + 1)

\* the integer written by the digits str[lo .. hi]
RECURSIVE DigitsValue(_, _, _)
DigitsValue(str, lo, hi) ==
  IF hi < lo THEN 0 ELSE 10 * DigitsValue(str, lo, hi - 1) + DigitVal(str[hi])

\* parseInt(e.target.value): the leading digits (the controls give no sign)
ParseInt(str) == DigitsValue(str, 1, DigitRun(str, 1))

\* the fraction digits str[lo .. hi] as a fixed-point number
RECURSIVE FractionValue(_, _, _, _)
FractionValue(str, lo, hi, unit) ==
  IF hi < lo THEN 0
  ELSE DigitVal(str[lo]) * (unit \div 10) + FractionValue(str, lo + 1, hi, unit \div 10)

\* parseFloat(e.target.value), as a fixed-point number
ParseFloat(str) ==
  LET n == DigitRun(str, 1)
      whole == DigitsValue(str, 1, n) * Scale
  IN IF n < Len(str) /\ str[n + 1] = "."
     THEN whole + FractionValue(str, n + 2, n + 1 + DigitRun(str, n + 2), Scale)
     ELSE whole

\* <input type="range" id="numBlades" min="1" max="8">
NumBladesMin == 1
NumBladesMax == 8
\* <input type="range" id="resolution" min="100" max="1000" step="10">
ResolutionMin == 100
ResolutionMax == 1000
ResolutionStep == 10
\* <input type="range" id="phaseShift" min="0" max="6.28" step="0.01">, in
\* hundredths
PhaseShiftMin == 0
PhaseShiftMax == 628

\* bounds of the exploration: the resolution slider is tried at its lowest
\* positions (up to position MaxResolutionStops), the phase slider at multiples
\* of PhaseStride (up to MaxPhaseStops of them) and at its top
MaxResolutionStops == 1
MaxPhaseStops == 1
PhaseStride == 157

\* mutant of NumBladesValues: the slider starts at 0
NumBladesValuesFromZero == {IntToStr(v) : v \in 0 .. NumBladesMax}

\* the strings the numBlades slider can hand to its onChange
NumBladesValues == {IntToStr(v) : v \in NumBladesMin .. NumBladesMax}

\* the strings the resolution slider can hand to its onChange
ResolutionValues ==
  {IntToStr(v) : v \in {x \in {ResolutionMin + ResolutionStep * k : k \in 0 .. MaxResolutionStops} :
                               x <= ResolutionMax}}

\* the strings the phaseShift slider can hand to its onChange
PhaseShiftValues ==
  {HundredthsToStr(h) : h \in {x \in {PhaseShiftMin + PhaseStride * k : k \in 0 .. MaxPhaseStops}
                                      \cup {PhaseShiftMax} : x <= PhaseShiftMax}}

\* const { sinData, sin2Data } = ...: the render holds the two datasets of the
\* call that returned
Destructure(data) ==
  /\ sinData' = data.sinData
  /\ sin2Data' = data.sin2Data
  /\ outcome' = "returned"

\* mutant of Render: the datasets are memoised on a stale blade count
RenderStaleBlades(nb, ps, res, sm) ==
  Destructure(GenerateData(numBlades, ps, res, sm))

\* a render of App: const { sinData, sin2Data } = generateData()
Render(nb, ps, res, sm) ==
  Destructure(GenerateData(nb, ps, res, sm))

\* onChange={(e) => setNumBlades(parseInt(e.target.value))}
SetNumBlades ==
  \E value \in NumBladesValues :
    /\ numBlades' = ParseInt(value)
    /\ UNCHANGED <<phaseShift, resolution, subtractMean>>
    /\ Render(numBlades', phaseShift', resolution', subtractMean')

\* onChange={(e) => setPhaseShift(parseFloat(e.target.value))}
SetPhaseShift ==
  \E value \in PhaseShiftValues :
    /\ phaseShift' = ParseFloat(value)
    /\ UNCHANGED <<numBlades, resolution, subtractMean>>
    /\ Render(numBlades', phaseShift', resolution', subtractMean')

\* onChange={(e) => setResolution(parseInt(e.target.value))}
SetResolution ==
  \E value \in ResolutionValues :
    /\ resolution' = ParseInt(value)
    /\ UNCHANGED <<numBlades, phaseShift, subtractMean>>
    /\ Render(numBlades', phaseShift', resolution', subtractMean')

\* onChange={(e) => setSubtractMean(e.target.checked)}
SetSubtractMean ==
  \E checked \in BOOLEAN :
    /\ subtractMean' = checked
    /\ UNCHANGED <<numBlades, phaseShift, resolution>>
    /\ Render(numBlades', phaseShift', resolution', subtractMean')

\* the state after the first render of App
Init ==
  /\ numBlades = 3
  /\ phaseShift = 0
  /\ resolution = 360
  /\ subtractMean = FALSE
  /\ sinData = GenerateData(3, 0, 360, FALSE).sinData
  /\ sin2Data = GenerateData(3, 0, 360, FALSE).sin2Data
  /\ outcome = "returned"

Next == SetNumBlades \/ SetPhaseShift \/ SetResolution \/ SetSubtractMean

Spec == Init /\ [][Next]_vars

\* ------------------------------------------- generateData as a pure function
\* bounds of the inputs tried
MaxBlades == 5
MaxRes == 6

\* blade counts and resolutions, valid and invalid
BladeInputs == -1 .. MaxBlades
ResInputs == -1 .. MaxRes
\* phase shifts in fixed-point radians: zero, small, negative, beyond a turn
PhaseInputs == {0, 100, -7777, 12345, 31416, 100000}

InitGen ==
  /\ numBlades \in BladeInputs
  /\ phaseShift \in PhaseInputs
  /\ resolution \in ResInputs
  /\ subtractMean \in BOOLEAN
  /\ sinData = <<>>
  /\ sin2Data = <<>>
  /\ outcome = "pending"

\* one call of generateData() on the parameters it closes over; the function
\* has no throw and no early return
Generate ==
  /\ outcome = "pending"
  /\ UNCHANGED <<numBlades, phaseShift, resolution, subtractMean>>
  /\ Render(numBlades, phaseShift, resolution, subtractMean)

NextGen == Generate

SpecGen == InitGen /\ [][NextGen]_vars

\* ------------------------------------------------------------------ claims
\* the rounding tolerance of the fixed-point evaluation: 0.002
Tol == Scale \div 500

Returned == outcome = "returned"

\* |a - t| <= Tol for a dataset value a and a fixed-point number t
Near(a, t) == a.den > 0 /\ Abs(a.num - t * a.den) <= Tol * a.den

\* twice a is within 2 * Tol of t (so that a is compared with t / 2)
NearHalf(a, t) == a.den > 0 /\ Abs(2 * a.num - t * a.den) <= 2 * Tol * a.den

\* equality of two dataset values as numbers
SameNumber(a, b) == a.den # 0 /\ b.den # 0 /\ a.num * b.den = b.num * a.den

RECURSIVE GCD(_, _)
GCD(a, b) == IF b = 0 THEN a ELSE GCD(b, a % b)

\* a + b of two dataset values, in lowest terms
Plus(a, b) ==
  LET n == a.num * b.den + b.num * a.den
      d == a.den * b.den
      g == GCD(Abs(n), Abs(d))
  IN IF g = 0 THEN [num |-> 0, den |-> 0] ELSE [num |-> n \div g, den |-> d \div g]

\* the sum of the blade values 0 .. k-1 of a point; the sums over the samples
\* 1 .. k of a blade's values and of the 'sum' values
RECURSIVE SumOverBlades(_, _)
SumOverBlades(point, k) ==
  IF k <= 0 THEN FromInt(0) ELSE Plus(SumOverBlades(point, k - 1), point.blade[k - 1])

RECURSIVE SumOfBlade(_, _, _)
SumOfBlade(data, b, k) ==
  IF k <= 0 THEN FromInt(0) ELSE Plus(SumOfBlade(data, b, k - 1), data[k].blade[b])

RECURSIVE SumOfSums(_, _)
SumOfSums(data, k) ==
  IF k <= 0 THEN FromInt(0) ELSE Plus(SumOfSums(data, k - 1), data[k].sum)

\* the raw values, from the formulas of the first pass
RECURSIVE RawSinSum(_, _)
RawSinSum(i, k) ==
  IF k <= 0 THEN 0
  ELSE RawSinSum(i, k - 1) + SinValue(i, k - 1, numBlades, phaseShift, resolution)

RECURSIVE RawSin2Sum(_, _)
RawSin2Sum(i, k) ==
  IF k <= 0 THEN 0
  ELSE RawSin2Sum(i, k - 1) + Sin2Value(i, k - 1, numBlades, phaseShift, resolution)

RECURSIVE TotalRawSin(_)
TotalRawSin(k) == IF k <= 0 THEN 0 ELSE TotalRawSin(k - 1) + RawSinSum(k - 1, numBlades)

RECURSIVE TotalRawSin2(_)
TotalRawSin2(k) == IF k <= 0 THEN 0 ELSE TotalRawSin2(k - 1) + RawSin2Sum(k - 1, numBlades)

\* C1: generateData called with bladeCount <= 0 or resolution <= 0 is rejected
\* with a validation error; it never returns a dataset for such inputs.
C1_InvalidInputRejected ==
  (outcome # "pending" /\ (numBlades <= 0 \/ resolution <= 0)) => outcome = "rejected"

C3_SineSumIsZero ==
  (Returned /\ numBlades >= 2 /\ ~subtractMean) =>
    \A i \in 1 .. Len(sinData) : Near(sinData[i].sum, 0)

C3_Witness ==
  /\ Returned /\ numBlades = 2 /\ ~subtractMean /\ phaseShift = 0 /\ resolution = 4
  /\ Len(sinData) = 4
  /\ \E i \in 1 .. 4 : sinData[i].blade[0].num > 0 /\ sinData[i].blade[1].num < 0

\* C4: in both datasets, without mean subtraction a sample's sum is the sum of
\* its blade values; with mean subtraction it is the sum of the raw blade
\* values of that sample minus the mean, over all samples, of the raw sums.
C4_SumOfBlades ==
  Returned =>
    /\ ~subtractMean =>
         /\ \A i \in 1 .. Len(sinData) :
              SameNumber(sinData[i].sum, SumOverBlades(sinData[i], numBlades))
         /\ \A i \in 1 .. Len(sin2Data) :
              SameNumber(sin2Data[i].sum, SumOverBlades(sin2Data[i], numBlades))
    /\ subtractMean =>
         /\ \A i \in 1 .. Len(sinData) :
              SameNumber(sinData[i].sum,
                         RatSub(FromInt(RawSinSum(i - 1, numBlades)),
                                Rat(TotalRawSin(resolution), resolution)))
         /\ \A i \in 1 .. Len(sin2Data) :
              SameNumber(sin2Data[i].sum,
                         RatSub(FromInt(RawSin2Sum(i - 1, numBlades)),
                                Rat(TotalRawSin2(resolution), resolution)))

C4_Witness ==
  /\ Returned /\ subtractMean /\ numBlades >= 2 /\ Len(sin2Data) >= 3
  /\ \E i \in 1 .. Len(sin2Data) :
       /\ sin2Data[i].sum.num # 0
       /\ ~SameNumber(sin2Data[i].sum, FromInt(RawSin2Sum(i - 1, numBlades)))

C6_Shape ==
  (Returned /\ numBlades >= 1 /\ resolution >= 1) =>
    \A data \in {sinData, sin2Data} :
      /\ Len(data) = resolution
      /\ \A i \in 1 .. Len(data) :
           /\ resolution * data[i].theta <= TwoPi * (i - 1)
           /\ TwoPi * (i - 1) < resolution * (data[i].theta + 1)
           /\ 0 <= data[i].theta /\ data[i].theta < TwoPi
           /\ i > 1 => data[i - 1].theta < data[i].theta
           /\ DOMAIN data[i] = {"theta", "thetaLabel", "blade", "sum"}
           /\ DOMAIN data[i].blade = 0 .. numBlades - 1
           /\ \A b \in 0 .. numBlades - 1 : IsFinite(data[i].blade[b])
           /\ IsFinite(data[i].sum)

C6_Witness ==
  /\ Returned /\ numBlades >= 2 /\ resolution >= 3
  /\ Len(sinData) = resolution /\ Len(sin2Data) = resolution
  /\ sinData[Len(sinData)].theta > Pi

\* C7: after any sequence of parameter changes the datasets shown are those of
\* a fresh generateData call on the current four parameters.
C7_DataIsFunctionOfParameters ==
  /\ sinData = GenerateData(numBlades, phaseShift, resolution, subtractMean).sinData
  /\ sin2Data = GenerateData(numBlades, phaseShift, resolution, subtractMean).sin2Data

C7_Witness ==
  /\ numBlades # 3 /\ phaseShift # 0 /\ resolution # 360 /\ subtractMean
  /\ Len(sinData) = resolution
  /\ DOMAIN sinData[1].blade = 0 .. numBlades - 1

\* C8: bladeCount=1, phaseShift=0, resolution=4, subtractMean=false gives the
\* angles [0, pi/2, pi, 3*pi/2], sine blade0 values [0, 1, 0, -1], squared-sine
\* blade0 values [0, 1, 0, 1], and in both datasets sum = blade0.
C8_Scenario ==
  (Returned /\ numBlades = 1 /\ phaseShift = 0 /\ resolution = 4 /\ ~subtractMean) =>
    /\ Len(sinData) = 4 /\ Len(sin2Data) = 4
    /\ \A data \in {sinData, sin2Data} :
         /\ Abs(data[1].theta) <= Tol
         /\ Abs(2 * data[2].theta - Pi) <= 2 * Tol
         /\ Abs(data[3].theta - Pi) <= Tol
         /\ Abs(2 * data[4].theta - 3 * Pi) <= 2 * Tol
         /\ \A i \in 1 .. 4 : SameNumber(data[i].sum, data[i].blade[0])
    /\ Near(sinData[1].blade[0], 0) /\ Near(sinData[2].blade[0], Scale)
    /\ Near(sinData[3].blade[0], 0) /\ Near(sinData[4].blade[0], -Scale)
    /\ Near(sin2Data[1].blade[0], 0) /\ Near(sin2Data[2].blade[0], Scale)
    /\ Near(sin2Data[3].blade[0], 0) /\ Near(sin2Data[4].blade[0], Scale)

C8_Witness ==
  /\ Returned /\ numBlades = 1 /\ phaseShift = 0 /\ resolution = 4 /\ ~subtractMean
  /\ Len(sinData) = 4 /\ sinData[4].blade[0].num < 0 /\ sin2Data[4].blade[0].num > 0

\* C9: in every state reachable from the initial state of the controls by
\* slider and checkbox changes, numBlades is in 1..8 and resolution is in
\* 100..1000, so generateData never runs with a count or resolution <= 0.
C9_ControlsInRange ==
  /\ numBlades \in 1 .. 8
  /\ resolution \in 100 .. 1000
  /\ numBlades > 0 /\ resolution > 0

C9_Witness ==
  /\ numBlades = 8 /\ resolution = 100 /\ phaseShift > 0 /\ subtractMean
  /\ Len(sinData) = 100

\* C10: with mean subtraction every series of both datasets is centred: the
\* sum (hence the mean) over all samples of each blade's values is 0, and so
\* is that of the sums; without it every blade value and sum is the raw value.
C10_Centred ==
  (Returned /\ numBlades >= 1 /\ resolution >= 1) =>
    /\ subtractMean =>
         \A data \in {sinData, sin2Data} :
           /\ \A b \in 0 .. numBlades - 1 :
                SameNumber(SumOfBlade(data, b, Len(data)), FromInt(0))
           /\ SameNumber(SumOfSums(data, Len(data)), FromInt(0))
    /\ ~subtractMean =>
         \A i \in 1 .. resolution :
           /\ \A b \in 0 .. numBlades - 1 :
                /\ sinData[i].blade[b] =
                     FromInt(SinValue(i - 1, b, numBlades, phaseShift, resolution))
                /\ sin2Data[i].blade[b] =
                     FromInt(Sin2Value(i - 1, b, numBlades, phaseShift, resolution))
           /\ sinData[i].sum = FromInt(RawSinSum(i - 1, numBlades))
           /\ sin2Data[i].sum = FromInt(RawSin2Sum(i - 1, numBlades))

C10_Witness ==
  /\ Returned /\ subtractMean /\ numBlades >= 2 /\ resolution >= 3
  /\ \E i \in 1 .. Len(sin2Data) : sin2Data[i].blade[1].num < 0
  /\ \E i \in 1 .. Len(sin2Data) : sin2Data[i].blade[1].num > 0
  /\ ~SameNumber(sin2Data[1].blade[1],
                 FromInt(Sin2Value(0, 1, numBlades, phaseShift, resolution)))

\* C11: with mean subtraction the sum shown is still the sum of the blade
\* values shown: in both datasets, at every sample, 'sum' equals the sum over
\* the blades 0 .. numBlades-1 of that sample's mean-subtracted values, the
\* division by resolution being exact.
C11_CentredSumIsSumOfCentredBlades ==
  (Returned /\ subtractMean) =>
    /\ \A i \in 1 .. Len(sinData) :
         SameNumber(sinData[i].sum, SumOverBlades(sinData[i], numBlades))
    /\ \A i \in 1 .. Len(sin2Data) :
         SameNumber(sin2Data[i].sum, SumOverBlades(sin2Data[i], numBlades))

C11_Witness ==
  /\ Returned /\ subtractMean /\ numBlades >= 2 /\ resolution >= 2
  /\ Len(sin2Data) = resolution
  /\ \E i \in 1 .. Len(sin2Data) :
       /\ sin2Data[i].sum.num # 0
       /\ ~SameNumber(sin2Data[i].sum, FromInt(RawSin2Sum(i - 1, numBlades)))
       /\ \A b \in 0 .. numBlades - 1 :
            ~SameNumber(sin2Data[i].blade[b],
                        FromInt(Sin2Value(i - 1, b, numBlades, phaseShift, resolution)))
====
